---------------------------- MODULE Spec2Model ----------------------------
(***************************************************************************)
(* Survey-call backend: the transcript-to-question classifier, the         *)
(* sentiment label, the transcript parser, the conversation webhook and    *)
(* the batch call loop.  Strings are real strings: toLowerCase and         *)
(* includes are computed character by character.  Timestamps and call      *)
(* durations are carried through by the code unread and are left out.      *)
(*                                                                         *)
(* SpecText  the three text functions applied to bounded utterances        *)
(* SpecParse parseTranscriptToResponses on every bounded transcript        *)
(* SpecHook  router.post('/conversation') on a server with two calls       *)
(* SpecBatch CallController.startBatchCalls                                *)
(***************************************************************************)
EXTENDS Integers, Sequences, FiniteSets, TLC

VARIABLES
    text,        \* classifier harness: the utterance given to the functions
    variant,     \* classifier harness: the same utterance in another letter case
    cpc,         \* classifier harness: "input" | "classified" | "analyzed"
    out,         \* classifier harness: the values the functions returned
    transcript,  \* parseTranscriptToResponses: the transcript parameter
    callId,      \* parseTranscriptToResponses: the callId parameter
    i,           \* parseTranscriptToResponses: the loop index (0-based)
    currentQuestion, \* parseTranscriptToResponses: the open question or null
    wpc,         \* where the transcript processing stands
    responses,   \* table survey_responses, rows in insertion order
    phase,       \* who called parseTranscriptToResponses: "direct" | "main" | "fallback"
    event,       \* webhook: req.body of the request being processed
    callSid,     \* webhook: the callSid extracted from the request
    httpResponse,\* webhook: what was sent on res for the request
    call,        \* webhook: the call record found by getCallBySid
    calls,       \* table survey_calls
    callTranscripts, \* table call_transcripts, rows in insertion order
    conversations,   \* the vendor's conversations: conversation id -> transcript
    delivered,   \* webhook requests received so far
    previous,    \* the request received before this one, and the tables as it left them
    customers,   \* table customers (the ids of its rows)
    customerIds, \* startBatchCalls: req.body.customerIds
    maxConcurrent,   \* startBatchCalls: req.body.maxConcurrent, 5 when not given
    bi,          \* startBatchCalls: the loop variable i
    batchFrom,   \* startBatchCalls: index in attempts of the first promise of batchPromises
    attempts,    \* startBatchCalls: the async callbacks started so far, in start order
    results,     \* startBatchCalls: the results array
    bpc,         \* startBatchCalls: where the handler stands
    batchResponse,   \* startBatchCalls: what was sent on res
    nextConv,    \* the vendor: conversations created so far
    groupsLessPauses, \* startBatchCalls: batches started less pauses made, so far
    callRequest, \* testCall / startCall: the endpoint called and req.body
    callPc,      \* testCall / startCall: where the handler stands
    vendorData,  \* initiateCall: the body of the vendor's reply (data)
    conversationId, \* testCall / startCall: the conversationId initiateCall returned
    callResponse \* testCall / startCall: what was sent on res

textVars == <<text, variant, cpc, out>>
parseVars == <<transcript, callId, i, currentQuestion, wpc, responses>>
hookVars == <<phase, event, callSid, httpResponse, call, calls, callTranscripts,
              conversations, delivered, previous>>

batchVars == <<customers, customerIds, maxConcurrent, bi, batchFrom, attempts, results,
               bpc, batchResponse, nextConv, groupsLessPauses>>

callVars == <<callRequest, callPc, vendorData, conversationId, callResponse>>

vars == <<text, variant, cpc, out, transcript, callId, i, currentQuestion, wpc, responses,
          phase, event, callSid, httpResponse, call, calls, callTranscripts,
          conversations, delivered, previous,
          customers, customerIds, maxConcurrent, bi, batchFrom, attempts, results,
          bpc, batchResponse, nextConv, groupsLessPauses,
          callRequest, callPc, vendorData, conversationId, callResponse>>

(***************************************************************************)
(* Bounds                                                                  *)
(***************************************************************************)
MaxAgentParts == 2     \* fragments joined into one agent utterance
MaxUserParts == 3      \* words joined into one user utterance
MaxTurns == 4          \* entries of a transcript
MaxHookTurns == 2      \* entries of a transcript the vendor API returns
MaxEvents == 2         \* webhook requests delivered one after the other
MaxIds == 4            \* entries of customerIds
LoopCap == 3           \* how far below zero the loop variable of a batch is followed
MaxCalls == 2          \* outbound-call requests the vendor answers for testCall and startCall

(***************************************************************************)
(* String primitives of the JavaScript runtime                             *)
(***************************************************************************)
\* String.prototype.toLowerCase on one ASCII character
LowerChar(c) ==
    CASE c = "A" -> "a" [] c = "B" -> "b" [] c = "C" -> "c" [] c = "D" -> "d"
      [] c = "E" -> "e" [] c = "F" -> "f" [] c = "G" -> "g" [] c = "H" -> "h"
      [] c = "I" -> "i" [] c = "J" -> "j" [] c = "K" -> "k" [] c = "L" -> "l"
      [] c = "M" -> "m" [] c = "N" -> "n" [] c = "O" -> "o" [] c = "P" -> "p"
      [] c = "Q" -> "q" [] c = "R" -> "r" [] c = "S" -> "s" [] c = "T" -> "t"
      [] c = "U" -> "u" [] c = "V" -> "v" [] c = "W" -> "w" [] c = "X" -> "x"
      [] c = "Y" -> "y" [] c = "Z" -> "z" [] OTHER -> c

UpperChar(c) ==
    CASE c = "a" -> "A" [] c = "b" -> "B" [] c = "c" -> "C" [] c = "d" -> "D"
      [] c = "e" -> "E" [] c = "f" -> "F" [] c = "g" -> "G" [] c = "h" -> "H"
      [] c = "i" -> "I" [] c = "j" -> "J" [] c = "k" -> "K" [] c = "l" -> "L"
      [] c = "m" -> "M" [] c = "n" -> "N" [] c = "o" -> "O" [] c = "p" -> "P"
      [] c = "q" -> "Q" [] c = "r" -> "R" [] c = "s" -> "S" [] c = "t" -> "T"
      [] c = "u" -> "U" [] c = "v" -> "V" [] c = "w" -> "W" [] c = "x" -> "X"
      [] c = "y" -> "Y" [] c = "z" -> "Z" [] OTHER -> c

RECURSIVE MapChars(_, _, _)
MapChars(s, pos, up) ==
    IF pos > Len(s) THEN ""
    ELSE (IF up THEN UpperChar(SubSeq(s, pos, pos)) ELSE LowerChar(SubSeq(s, pos, pos)))
         \o MapChars(s, pos + 1, up)

\* text.toLowerCase()
ToLowerCase(s) == MapChars(s, 1, FALSE)

\* text.toUpperCase(), used only to build inputs that differ in letter case
ToUpperCase(s) == MapChars(s, 1, TRUE)

\* s.includes(p), p non-empty
Includes(s, p) ==
    \E pos \in 1..(Len(s) - Len(p) + 1) : SubSeq(s, pos, pos + Len(p) - 1) = p


(***************************************************************************)
(* ElevenLabsService: question detection, follow-up detection, sentiment   *)
(***************************************************************************)
\* the null that detectQuestionFromText returns and currentQuestion starts with
NoQuestion == 0

\* detectQuestionFromText with the question 3 check made after the question 5 check
detectQuestionFromText_Q5BeforeQ3(t) ==
    LET lowerText == ToLowerCase(t) IN
    IF Includes(lowerText, "how long have you been using")
       \/ Includes(lowerText, "how long have you been")
    THEN 1
    ELSE IF (Includes(lowerText, "main reason") \/ Includes(lowerText, "reason you continue"))
            /\ (Includes(lowerText, "continue") \/ Includes(lowerText, "work with us"))
    THEN 2
    ELSE IF Includes(lowerText, "anything else")
            \/ Includes(lowerText, "anything about your business")
    THEN 5
    ELSE IF Includes(lowerText, "meeting expectations")
            /\ ~Includes(lowerText, "how important")
            /\ ~Includes(lowerText, "how could we improve")
    THEN 3
    ELSE IF Includes(lowerText, "safety expectations")
            /\ ~Includes(lowerText, "what actions show")
            /\ ~Includes(lowerText, "what actions don't")
    THEN 4
    ELSE NoQuestion

\* detectQuestionFromText with the "how could we improve" exclusion of question 3 left out
detectQuestionFromText_NoImproveCheck(t) ==
    LET lowerText == ToLowerCase(t) IN
    IF Includes(lowerText, "how long have you been using")
       \/ Includes(lowerText, "how long have you been")
    THEN 1
    ELSE IF (Includes(lowerText, "main reason") \/ Includes(lowerText, "reason you continue"))
            /\ (Includes(lowerText, "continue") \/ Includes(lowerText, "work with us"))
    THEN 2
    ELSE IF Includes(lowerText, "meeting expectations")
            /\ ~Includes(lowerText, "how important")
    THEN 3
    ELSE IF Includes(lowerText, "safety expectations")
            /\ ~Includes(lowerText, "what actions show")
            /\ ~Includes(lowerText, "what actions don't")
    THEN 4
    ELSE IF Includes(lowerText, "anything else")
            \/ Includes(lowerText, "anything about your business")
    THEN 5
    ELSE NoQuestion

\* detectQuestionFromText(text): number | null
detectQuestionFromText(t) ==
    LET lowerText == ToLowerCase(t) IN
    IF Includes(lowerText, "how long have you been using")
       \/ Includes(lowerText, "how long have you been")
    THEN 1
    ELSE IF (Includes(lowerText, "main reason") \/ Includes(lowerText, "reason you continue"))
            /\ (Includes(lowerText, "continue") \/ Includes(lowerText, "work with us"))
    THEN 2
    ELSE IF Includes(lowerText, "meeting expectations")
            /\ ~Includes(lowerText, "how important")
            /\ ~Includes(lowerText, "how could we improve")
    THEN 3
    ELSE IF Includes(lowerText, "safety expectations")
            /\ ~Includes(lowerText, "what actions show")
            /\ ~Includes(lowerText, "what actions don't")
    THEN 4
    ELSE IF Includes(lowerText, "anything else")
            \/ Includes(lowerText, "anything about your business")
    THEN 5
    ELSE NoQuestion

\* const followUpPatterns = [...]
followUpPatterns ==
    << "how important",
       "how could we improve",
       "what actions show",
       "what actions don't",
       "what actions show safe",
       "what actions don't meet" >>

\* isFollowUpQuestion matching the text as given, without lower-casing it
isFollowUpQuestion_CaseSensitive(t) ==
    \E k \in 1..Len(followUpPatterns) : Includes(t, followUpPatterns[k])

\* isFollowUpQuestion(text): boolean
isFollowUpQuestion(t) ==
    LET lowerText == ToLowerCase(t) IN
    \E k \in 1..Len(followUpPatterns) : Includes(lowerText, followUpPatterns[k])

positiveWords ==
    <<"good", "great", "excellent", "satisfied", "happy", "pleased", "love", "amazing">>

negativeWords ==
    <<"bad", "terrible", "awful", "disappointed", "unhappy", "hate", "worst", "poor">>

\* words.filter(word => lowerText.includes(word)).length
FilterCount(words, lowerText) ==
    Cardinality({k \in 1..Len(words) : Includes(lowerText, words[k])})

\* the number of places of lowerText where word starts
Occurrences(lowerText, word) ==
    Cardinality({pos \in 1..(Len(lowerText) - Len(word) + 1) :
                    SubSeq(lowerText, pos, pos + Len(word) - 1) = word})

RECURSIVE OccurrenceCount(_, _, _)
\* the occurrences of words[1..k] in lowerText, every repetition counted
OccurrenceCount(words, lowerText, k) ==
    IF k = 0 THEN 0
    ELSE Occurrences(lowerText, words[k]) + OccurrenceCount(words, lowerText, k - 1)

\* analyzeSentiment counting every occurrence of a listed word
analyzeSentiment_PerOccurrence(t) ==
    LET lowerText == ToLowerCase(t)
        positiveCount == OccurrenceCount(positiveWords, lowerText, Len(positiveWords))
        negativeCount == OccurrenceCount(negativeWords, lowerText, Len(negativeWords))
    IN  IF positiveCount > negativeCount THEN "positive"
        ELSE IF negativeCount > positiveCount THEN "negative"
        ELSE "neutral"

\* analyzeSentiment with ties going to positive
analyzeSentiment_TiePositive(t) ==
    LET lowerText == ToLowerCase(t)
        positiveCount == FilterCount(positiveWords, lowerText)
        negativeCount == FilterCount(negativeWords, lowerText)
    IN  IF positiveCount >= negativeCount THEN "positive"
        ELSE IF negativeCount > positiveCount THEN "negative"
        ELSE "neutral"

\* analyzeSentiment(text): 'positive' | 'neutral' | 'negative'
analyzeSentiment(t) ==
    LET lowerText == ToLowerCase(t)
        positiveCount == FilterCount(positiveWords, lowerText)
        negativeCount == FilterCount(negativeWords, lowerText)
    IN  IF positiveCount > negativeCount THEN "positive"
        ELSE IF negativeCount > positiveCount THEN "negative"
        ELSE "neutral"

(***************************************************************************)
(* Utterances the functions are applied to                                 *)
(***************************************************************************)
AgentFragments ==
    { "How long have you been using", "how long have you been",
      "Main reason", "reason you continue", "work with us",
      "meeting expectations", "How Important", "how could we improve",
      "Safety Expectations", "what actions show", "What actions don't",
      "Anything else", "anything about your business", "thanks" }

UserFragments ==
    { "good", "Great", "excellent", "happy", "unhappy", "bad", "POOR",
      "terrible", "fine" }

RECURSIVE Joined(_, _)
\* the utterances made of 1..n fragments of F separated by single spaces
Joined(F, n) ==
    IF n = 0 THEN {}
    ELSE LET shorter == Joined(F, n - 1) IN
         F \cup shorter \cup {s \o " " \o f : s \in shorter, f \in F}

AgentTexts == Joined(AgentFragments, MaxAgentParts)
UserTexts == Joined(UserFragments, MaxUserParts)

\* an array field of the request body: absent, or present with its entries
Absent == [present |-> FALSE, turns |-> <<>>]
Present(turns) == [present |-> TRUE, turns |-> turns]

\* a request body with no field set
BaseEvent ==
    [type |-> "unknown", header_call_sid |-> "", call_sid |-> "", conversation_id |-> "",
     call_id |-> "", data_conversation_id |-> "", phone_call_sid |-> "",
     transcript |-> Absent, data_transcript |-> Absent, data_collection |-> {}]

NoCall == [id |-> "", call_sid |-> "", call_status |-> "", customer_id |-> ""]

NoBatchResponse == [status |-> 0, total |-> 0, successful |-> 0, failed |-> 0, results |-> <<>>]

\* no batch request in progress
BatchIdle ==
    /\ customers = {"c1", "c2"}
    /\ customerIds = <<>>
    /\ maxConcurrent = 5
    /\ bi = 0
    /\ batchFrom = 1
    /\ attempts = <<>>
    /\ results = <<>>
    /\ bpc = "idle"
    /\ batchResponse = NoBatchResponse
    /\ nextConv = 0
    /\ groupsLessPauses = 0

\* no request was received before this one
NoPrevious == [event |-> BaseEvent, calls |-> {}, responses |-> <<>>, callTranscripts |-> <<>>]

\* the body of a vendor reply that carries no id
NoVendorData == [conversation_id |-> "", callSid |-> ""]

NoCallRequest == [endpoint |-> "", customerId |-> "", firstName |-> "", phoneNumber |-> ""]

NoCallResponse == [status |-> 0, callId |-> "", callSid |-> ""]

\* no testCall or startCall request in progress
CallIdle ==
    /\ callRequest = NoCallRequest
    /\ callPc = "idle"
    /\ vendorData = NoVendorData
    /\ conversationId = ""
    /\ callResponse = NoCallResponse

\* the webhook and the tables untouched (the text functions and the parser alone)
HookIdle ==
    /\ phase = "direct"
    /\ event = BaseEvent
    /\ callSid = ""
    /\ httpResponse = "none"
    /\ call = NoCall
    /\ calls = {}
    /\ callTranscripts = <<>>
    /\ conversations = <<>>
    /\ delivered = 0
    /\ previous = NoPrevious

NoOut == [detected |-> NoQuestion, followUp |-> FALSE, sentiment |-> "none",
          detectedV |-> NoQuestion, followUpV |-> FALSE, sentimentV |-> "none"]

TextInit ==
    /\ text \in AgentTexts \cup UserTexts
    /\ variant \in {ToLowerCase(text), ToUpperCase(text)}
    /\ cpc = "input"
    /\ out = NoOut
    /\ transcript = <<>>
    /\ callId = "none"
    /\ i = 0
    /\ currentQuestion = NoQuestion
    /\ wpc = "idle"
    /\ responses = <<>>
    /\ HookIdle
    /\ BatchIdle
    /\ CallIdle

\* the agent branch of the parser: both functions applied to the utterance
Classify ==
    /\ cpc = "input"
    /\ out' = [out EXCEPT !.detected = detectQuestionFromText(text),
                          !.followUp = isFollowUpQuestion(text),
                          !.detectedV = detectQuestionFromText(variant),
                          !.followUpV = isFollowUpQuestion(variant)]
    /\ cpc' = "classified"
    /\ UNCHANGED <<text, variant, parseVars, hookVars, batchVars, callVars>>

\* the user branch of the parser: the sentiment of the utterance
Analyze ==
    /\ cpc = "input"
    /\ out' = [out EXCEPT !.sentiment = analyzeSentiment(text),
                          !.sentimentV = analyzeSentiment(variant)]
    /\ cpc' = "analyzed"
    /\ UNCHANGED <<text, variant, parseVars, hookVars, batchVars, callVars>>

TextNext == Classify \/ Analyze

SpecText == TextInit /\ [][TextNext]_vars


(***************************************************************************)
(* parseTranscriptToResponses                                              *)
(***************************************************************************)
\* a || b on strings, "" standing for undefined as well as for ''
Or(a, b) == IF a # "" THEN a ELSE b

AgentRoles == {"assistant", "agent"}

\* getQuestionText(questionNumber)
getQuestionText(questionNumber) ==
    LET questions ==
          << "How long have you been using Great Southern Fuels?",
             "What's the main reason you continue to work with us?",
             "Has our service been meeting expectations in that area?",
             "Do our actions on site and on the road meet your safety expectations?",
             "Anything else about your business or our service you'd like to mention?" >>
    IN  IF questionNumber \in 1..Len(questions) THEN questions[questionNumber]
        ELSE "Additional feedback"

\* one transcript entry; a field the vendor did not send is ""
Entry(role, speaker, message, response, txt) ==
    [role |-> role, speaker |-> speaker, message |-> message,
     response |-> response, text |-> txt]

\* const role = entry.role || entry.speaker
EntryRole(entry) == Or(entry.role, entry.speaker)

\* const message = entry.message || entry.response || entry.text || ''
EntryMessage(entry) == Or(Or(entry.message, entry.response), entry.text)

\* the isFollowUp of the user branch, read from the entry before transcript[i]
PreviousIsFollowUp(tr, idx) ==
    /\ idx > 0
    /\ tr[idx].role \in AgentRoles
    /\ isFollowUpQuestion(Or(tr[idx].message, tr[idx].response))

\* the row handed to createResponse for the user entry at index idx
ResponseRow(cid, question, message, isFollowUp) ==
    [call_id |-> cid,
     question_number |-> question,
     question_text |-> getQuestionText(question),
     response_text |-> message,
     response_sentiment |-> analyzeSentiment(message),
     is_followup |-> isFollowUp]

\* the entries the transcripts are made of
EntryVocabulary ==
    { Entry("agent", "", "How long have you been using Great Southern Fuels?", "", ""),
      Entry("assistant", "", "Has our service been meeting expectations?", "", ""),
      Entry("agent", "", "How important is that to your business?", "", ""),
      Entry("", "agent", "", "", "How could we improve?"),
      Entry("agent", "", "Thanks for your time.", "", ""),
      Entry("user", "", "It has been great", "", ""),
      Entry("", "user", "", "Bad service", "") }

RECURSIVE SeqsUpTo(_, _)
\* the sequences over S of length 0..n
SeqsUpTo(S, n) ==
    IF n = 0 THEN {<<>>}
    ELSE LET shorter == SeqsUpTo(S, n - 1) IN
         shorter \cup {Append(q, e) : q \in shorter, e \in S}

Transcripts == SeqsUpTo(EntryVocabulary, MaxTurns)

\* where control goes when parseTranscriptToResponses returns: to its caller
AfterParse ==
    CASE phase = "main" -> "updateStatus"      \* line 144 -> line 148
      [] phase = "fallback" -> "done"          \* line 162 -> end of the callback
      [] OTHER -> "parsed"

\* a throw swallowed on the main path: control goes on to the status update
AfterParseThrows_Swallowed ==
    CASE phase = "main" -> "updateStatus"
      [] phase = "fallback" -> "done"
      [] OTHER -> "failed"

\* where control goes when it throws: to the catch around the call
AfterParseThrows ==
    CASE phase = "main" -> "fallback"          \* catch (apiError), line 151
      [] phase = "fallback" -> "done"          \* catch (error), line 174
      [] OTHER -> "failed"

\* one iteration of the for loop, createResponse succeeding where it is called
ParseStep ==
    /\ wpc = "parse"
    /\ i < Len(transcript)
    /\ LET entry == transcript[i + 1]
           role == EntryRole(entry)
           message == EntryMessage(entry)
       IN  IF role \in AgentRoles
           THEN LET detectedQuestion == detectQuestionFromText(message) IN
                /\ currentQuestion' = IF detectedQuestion # NoQuestion
                                      THEN detectedQuestion
                                      ELSE currentQuestion
                /\ UNCHANGED responses
           ELSE IF role = "user" /\ currentQuestion # NoQuestion
           THEN LET isFollowUp == PreviousIsFollowUp(transcript, i) IN
                /\ responses' = Append(responses,
                                  ResponseRow(callId, currentQuestion, message, isFollowUp))
                /\ currentQuestion' = IF ~isFollowUp THEN NoQuestion ELSE currentQuestion
           ELSE UNCHANGED <<currentQuestion, responses>>
    /\ i' = i + 1
    /\ UNCHANGED <<transcript, callId, wpc, textVars, hookVars, batchVars, callVars>>

\* an iteration whose createResponse throws: nothing is inserted, the error propagates
ParseStepThrows ==
    /\ wpc = "parse"
    /\ i < Len(transcript)
    /\ EntryRole(transcript[i + 1]) = "user"
    /\ currentQuestion # NoQuestion
    /\ wpc' = AfterParseThrows
    /\ UNCHANGED <<transcript, callId, i, currentQuestion, responses, textVars, hookVars, batchVars, callVars>>

\* the loop condition fails: the function returns
ParseReturn ==
    /\ wpc = "parse"
    /\ i >= Len(transcript)
    /\ wpc' = AfterParse
    /\ UNCHANGED <<transcript, callId, i, currentQuestion, responses, textVars, hookVars, batchVars, callVars>>

ParseInit ==
    /\ transcript \in Transcripts
    /\ callId = "call-1"
    /\ i = 0
    /\ currentQuestion = NoQuestion
    /\ wpc = "parse"
    /\ responses = <<>>
    /\ text = "" /\ variant = "" /\ cpc = "off" /\ out = NoOut
    /\ HookIdle
    /\ BatchIdle
    /\ CallIdle

ParseNext == ParseStep \/ ParseStepThrows \/ ParseReturn

SpecParse == ParseInit /\ [][ParseNext]_vars

(***************************************************************************)
(* router.post('/conversation'): the conversation webhook                  *)
(***************************************************************************)
EndTypes == {"conversation_ended", "post_call_transcription", "conversation_completed"}

\* the callSid the handler extracts from the request (lines 83-95)
ExtractCallSid(ev) ==
    IF ev.type = "post_call_transcription"
    THEN Or(Or(ev.data_conversation_id, ev.phone_call_sid), ev.conversation_id)
    ELSE Or(Or(Or(Or(ev.header_call_sid, ev.call_sid), ev.conversation_id), ev.call_id),
            ev.conversation_id)

\* const conversationId = callSid || event.data?.conversation_id || event.conversation_id
ConversationId == Or(Or(callSid, event.data_conversation_id), event.conversation_id)

\* event.transcript || event.data?.transcript || []  (an empty array is truthy)
WebhookTranscript ==
    IF event.transcript.present THEN event.transcript.turns
    ELSE IF event.data_transcript.present THEN event.data_transcript.turns
    ELSE <<>>

\* the rows of survey_calls with the given call_sid
RowsBySid(sid) == {c \in calls : c.call_sid = sid}

\* update survey_calls set call_status = status where call_sid = sid
WithStatus(sid, status) ==
    {IF c.call_sid = sid THEN [c EXCEPT !.call_status = status] ELSE c : c \in calls}

HookAgentQ1 == Entry("agent", "", "How long have you been using Great Southern Fuels?", "", "")
HookAgentFollowUp == Entry("agent", "", "How important is that to your business?", "", "")
HookUser == Entry("user", "", "It has been great", "", "")

HookVocabulary == {HookAgentQ1, HookAgentFollowUp, HookUser}

\* the transcripts the vendor API may hold for a conversation
HookTranscripts == SeqsUpTo(HookVocabulary, MaxHookTurns)

PayloadTranscript == <<HookAgentQ1, HookUser>>

\* the requests the vendor (or anyone) may post
Events ==
    { [BaseEvent EXCEPT !.type = "post_call_transcription",
                        !.data_conversation_id = "conv-1",
                        !.data_transcript = Present(PayloadTranscript),
                        !.data_collection = {[key |-> "q1", value |-> "About five years"],
                                             [key |-> "q5", value |-> "No, all good"]}],
      [BaseEvent EXCEPT !.type = "post_call_transcription",
                        !.data_conversation_id = "conv-1",
                        !.data_transcript = Present(PayloadTranscript)],
      [BaseEvent EXCEPT !.type = "post_call_transcription",
                        !.phone_call_sid = "CA-1"],
      [BaseEvent EXCEPT !.type = "conversation_ended",
                        !.conversation_id = "conv-1",
                        !.transcript = Present(<<>>),
                        !.data_transcript = Present(PayloadTranscript)],
      [BaseEvent EXCEPT !.type = "conversation_completed",
                        !.header_call_sid = "conv-2"],
      [BaseEvent EXCEPT !.type = "conversation_ended"],
      [BaseEvent EXCEPT !.type = "conversation_started",
                        !.conversation_id = "conv-1"],
      [BaseEvent EXCEPT !.type = "conversation_started",
                        !.call_sid = "conv-9"],
      [BaseEvent EXCEPT !.type = "user_message",
                        !.conversation_id = "conv-1"] }

\* the response left unsent when the processing is scheduled
Acknowledgement_NotYet == httpResponse

\* line 101: res.json({ success: true, received: eventType })
Acknowledgement == "success"

\* lines 76-104: the request is read, acknowledged, and its processing scheduled
WebhookPost ==
    /\ wpc = "idle"
    /\ delivered < MaxEvents
    /\ \E ev \in Events :
          /\ event' = ev
          /\ callSid' = ExtractCallSid(ev)
    /\ httpResponse' = Acknowledgement
    /\ delivered' = delivered + 1
    /\ previous' = [event |-> event, calls |-> calls, responses |-> responses,
                    callTranscripts |-> callTranscripts]
    /\ wpc' = "scheduled"
    /\ call' = NoCall
    /\ UNCHANGED <<phase, calls, callTranscripts, conversations,
                   transcript, callId, i, currentQuestion, responses, textVars, batchVars, callVars>>

\* lines 104-113 and 167-171: the setImmediate callback starts
ProcessEvent ==
    /\ wpc = "scheduled"
    /\ wpc' = IF event.type \in EndTypes
              THEN (IF ConversationId = "" THEN "done" ELSE "findCall")
              ELSE IF event.type = "conversation_started" /\ callSid # ""
              THEN "markStarted"
              ELSE "done"
    /\ UNCHANGED <<transcript, callId, i, currentQuestion, responses, textVars, hookVars, batchVars, callVars>>

\* line 118: getCallBySid returns the one row with that call_sid
FindCall ==
    /\ wpc = "findCall"
    /\ \E c \in RowsBySid(ConversationId) :
          /\ Cardinality(RowsBySid(ConversationId)) = 1
          /\ call' = c
    /\ wpc' = "fetch"
    /\ UNCHANGED <<phase, event, callSid, httpResponse, calls, callTranscripts,
                   conversations, delivered, previous,
                   transcript, callId, i, currentQuestion, responses, textVars, batchVars, callVars>>

\* line 118: getCallBySid throws (no single row, or the database fails);
\* the catch of line 174 ends the processing
FindCallThrows ==
    /\ wpc = "findCall"
    /\ wpc' = "done"
    /\ UNCHANGED <<transcript, callId, i, currentQuestion, responses, textVars, hookVars, batchVars, callVars>>

\* lines 129-132: the vendor API returns the conversation
FetchConversation ==
    /\ wpc = "fetch"
    /\ ConversationId \in DOMAIN conversations
    /\ transcript' = conversations[ConversationId]
    /\ wpc' = "storeTranscript"
    /\ UNCHANGED <<callId, i, currentQuestion, responses, textVars, hookVars, batchVars, callVars>>

\* line 129: getConversationDetails throws; catch (apiError)
FetchConversationThrows ==
    /\ wpc = "fetch"
    /\ wpc' = "fallback"
    /\ UNCHANGED <<transcript, callId, i, currentQuestion, responses, textVars, hookVars, batchVars, callVars>>

\* createTranscript: one row of call_transcripts holding the transcript as given
createTranscript(cid, turns) ==
    Append(callTranscripts, [call_id |-> cid, transcript |-> turns])

\* lines 137-144 storing only the turns of the user
StoreTranscript_UserTurnsOnly ==
    /\ wpc = "storeTranscript"
    /\ callTranscripts' = createTranscript(call.id,
                              SelectSeq(transcript, LAMBDA e : EntryRole(e) = "user"))
    /\ callId' = call.id
    /\ i' = 0
    /\ currentQuestion' = NoQuestion
    /\ phase' = "main"
    /\ wpc' = "parse"
    /\ UNCHANGED <<transcript, responses, event, callSid, httpResponse, call, calls,
                   conversations, delivered, previous, textVars, batchVars, callVars>>

\* lines 137-144: the transcript is stored and parseTranscriptToResponses is entered
StoreTranscript ==
    /\ wpc = "storeTranscript"
    /\ callTranscripts' = createTranscript(call.id, transcript)
    /\ callId' = call.id
    /\ i' = 0
    /\ currentQuestion' = NoQuestion
    /\ phase' = "main"
    /\ wpc' = "parse"
    /\ UNCHANGED <<transcript, responses, event, callSid, httpResponse, call, calls,
                   conversations, delivered, previous, textVars, batchVars, callVars>>

\* line 137: createTranscript throws; catch (apiError)
StoreTranscriptThrows ==
    /\ wpc = "storeTranscript"
    /\ wpc' = "fallback"
    /\ UNCHANGED <<transcript, callId, i, currentQuestion, responses, textVars, hookVars, batchVars, callVars>>

\* line 148: updateCallStatus(conversationId, 'completed', callDuration)
MarkCompleted ==
    /\ wpc = "updateStatus"
    /\ Cardinality(RowsBySid(ConversationId)) = 1
    /\ calls' = WithStatus(ConversationId, "completed")
    /\ wpc' = "done"
    /\ UNCHANGED <<phase, event, callSid, httpResponse, call, callTranscripts,
                   conversations, delivered, previous,
                   transcript, callId, i, currentQuestion, responses, textVars, batchVars, callVars>>

\* line 148: updateCallStatus throws; catch (apiError)
MarkCompletedThrows ==
    /\ wpc = "updateStatus"
    /\ wpc' = "fallback"
    /\ UNCHANGED <<transcript, callId, i, currentQuestion, responses, textVars, hookVars, batchVars, callVars>>

\* lines 155-163: the fallback stores the request's own transcript, if it has
\* entries, and enters parseTranscriptToResponses on it
Fallback ==
    /\ wpc = "fallback"
    /\ IF Len(WebhookTranscript) > 0
       THEN /\ callTranscripts' = createTranscript(call.id, WebhookTranscript)
            /\ transcript' = WebhookTranscript
            /\ callId' = call.id
            /\ i' = 0
            /\ currentQuestion' = NoQuestion
            /\ phase' = "fallback"
            /\ wpc' = "parse"
       ELSE /\ wpc' = "done"
            /\ UNCHANGED <<callTranscripts, transcript, callId, i, currentQuestion, phase>>
    /\ UNCHANGED <<responses, event, callSid, httpResponse, call, calls,
                   conversations, delivered, previous, textVars, batchVars, callVars>>

\* line 158: createTranscript throws in the fallback; the catch of line 174
FallbackThrows ==
    /\ wpc = "fallback"
    /\ Len(WebhookTranscript) > 0
    /\ wpc' = "done"
    /\ UNCHANGED <<transcript, callId, i, currentQuestion, responses, textVars, hookVars, batchVars, callVars>>

\* line 170: updateCallStatus(callSid, 'in-progress')
MarkStarted ==
    /\ wpc = "markStarted"
    /\ Cardinality(RowsBySid(callSid)) = 1
    /\ calls' = WithStatus(callSid, "in-progress")
    /\ wpc' = "done"
    /\ UNCHANGED <<phase, event, callSid, httpResponse, call, callTranscripts,
                   conversations, delivered, previous,
                   transcript, callId, i, currentQuestion, responses, textVars, batchVars, callVars>>

\* line 170: updateCallStatus throws (no row with that call_sid, or the
\* database fails); the catch of line 174
MarkStartedThrows ==
    /\ wpc = "markStarted"
    /\ wpc' = "done"
    /\ UNCHANGED <<transcript, callId, i, currentQuestion, responses, textVars, hookVars, batchVars, callVars>>

\* the processing of the request is over; the next request is taken (the
\* requests are processed one after the other here)
NextRequest ==
    /\ wpc = "done"
    /\ wpc' = "idle"
    /\ UNCHANGED <<transcript, callId, i, currentQuestion, responses, textVars, hookVars,
                   batchVars, callVars>>

\* two calls were placed and recorded; the vendor holds their conversations
HookInit ==
    /\ text = "" /\ variant = "" /\ cpc = "off" /\ out = NoOut
    /\ transcript = <<>>
    /\ callId = "none"
    /\ i = 0
    /\ currentQuestion = NoQuestion
    /\ wpc = "idle"
    /\ responses = <<>>
    /\ phase = "main"
    /\ event = BaseEvent
    /\ callSid = ""
    /\ httpResponse = "none"
    /\ call = NoCall
    /\ calls = { [id |-> "call-1", call_sid |-> "conv-1", call_status |-> "queued",
                  customer_id |-> "c1"],
                 [id |-> "call-2", call_sid |-> "conv-2", call_status |-> "queued",
                  customer_id |-> "c2"] }
    /\ callTranscripts = <<>>
    /\ \E t \in HookTranscripts :
          conversations = [c \in {"conv-1", "conv-2"} |->
                              IF c = "conv-1" THEN t ELSE <<HookAgentQ1>>]
    /\ delivered = 0
    /\ previous = NoPrevious
    /\ BatchIdle
    /\ CallIdle

HookNext ==
    \/ WebhookPost \/ ProcessEvent
    \/ FindCall \/ FindCallThrows
    \/ FetchConversation \/ FetchConversationThrows
    \/ StoreTranscript \/ StoreTranscriptThrows
    \/ ParseStep \/ ParseStepThrows \/ ParseReturn
    \/ MarkCompleted \/ MarkCompletedThrows
    \/ Fallback \/ FallbackThrows
    \/ MarkStarted \/ MarkStartedThrows
    \/ NextRequest

SpecHook == HookInit /\ [][HookNext]_vars

(***************************************************************************)
(* ElevenLabsService.initiateCall                                          *)
(***************************************************************************)
\* the body of the vendor's reply to the n-th outbound-call request it
\* answers, when the call was placed: the conversation id and the telephony id
PlacedReply(n) ==
    [conversation_id |-> "conv-" \o ToString(n), callSid |-> "CA-" \o ToString(n)]

\* the bodies the vendor may send in that reply: both ids, the telephony call
\* id alone, or no id
VendorReplies(n) ==
    { PlacedReply(n),
      [conversation_id |-> "", callSid |-> "CA-" \o ToString(n)],
      NoVendorData }

\* Date.now(): the clock, read as the number of requests the vendor has answered
DateNow == nextConv + 1

\* return data.conversation_id || data.callSid || `conv_${Date.now()}`
initiateCall(data, now) ==
    Or(Or(data.conversation_id, data.callSid), "conv_" \o ToString(now))

(***************************************************************************)
(* CallController.startBatchCalls                                          *)
(***************************************************************************)
hookVarsButCalls == <<phase, event, callSid, httpResponse, call, callTranscripts,
                      conversations, delivered, previous>>

\* const { customerIds, maxConcurrent = 5 } = req.body
DefaultMaxConcurrent == 5

\* the 0-based offset Array.prototype.slice makes of an argument
RelativeIndex(k, len) ==
    IF k < 0 THEN (IF len + k > 0 THEN len + k ELSE 0)
    ELSE (IF k < len THEN k ELSE len)

\* the 0-based offsets of the elements arr.slice(start, end) takes
SliceOffsets(len, start, end) ==
    {k \in 0..(len - 1) : RelativeIndex(start, len) <= k /\ k < RelativeIndex(end, len)}

\* the batch sliced from the start of the array: customerIds.slice(0, i + maxConcurrent)
BatchOffsets_FromZero == SliceOffsets(Len(customerIds), 0, bi + maxConcurrent)

\* const batch = customerIds.slice(i, i + maxConcurrent), as offsets into customerIds
BatchOffsets == SliceOffsets(Len(customerIds), bi, bi + maxConcurrent)

RECURSIVE Ascending(_)
\* the elements of a finite set of numbers in increasing order
Ascending(S) ==
    IF S = {} THEN <<>>
    ELSE LET least == CHOOSE x \in S : \A y \in S : x <= y
         IN  <<least>> \o Ascending(S \ {least})

NoResult == [customerId |-> "", callId |-> "", callSid |-> "", status |-> "", error |-> ""]

\* return { customerId, callId: call.id, callSid: conversationId, status: 'queued' }
QueuedResult(customerId, cid, sid) ==
    [customerId |-> customerId, callId |-> cid, callSid |-> sid,
     status |-> "queued", error |-> ""]

\* return { customerId, error: ... }
ErrorResult(customerId, message) ==
    [customerId |-> customerId, callId |-> "", callSid |-> "", status |-> "", error |-> message]

\* the request bodies: customerIds arrays and maxConcurrent values
IdLists == SeqsUpTo({"c1", "c9"}, MaxIds)
MaxConcurrentValues == {-1, 0, 1, 2, 3}

\* lines 124-133: the request is read and validated
StartBatch ==
    /\ bpc = "idle"
    /\ \E ids \in IdLists, given \in BOOLEAN, m \in MaxConcurrentValues :
          IF Len(ids) = 0
          THEN /\ batchResponse' = [NoBatchResponse EXCEPT !.status = 400]
               /\ bpc' = "responded"
               /\ UNCHANGED <<customerIds, maxConcurrent>>
          ELSE /\ customerIds' = ids
               /\ maxConcurrent' = IF given THEN m ELSE DefaultMaxConcurrent
               /\ bpc' = "loop"
               /\ UNCHANGED batchResponse
    /\ bi' = 0
    /\ results' = <<>>
    /\ groupsLessPauses' = 0
    /\ UNCHANGED <<customers, batchFrom, attempts, nextConv, calls,
                   textVars, parseVars, hookVarsButCalls, callVars>>

\* lines 136-175: the loop condition holds; the batch is sliced and every
\* callback of batch.map runs up to its first await (getCustomerById)
LaunchBatch ==
    /\ bpc = "loop"
    /\ bi < Len(customerIds)
    /\ LET offsets == Ascending(BatchOffsets) IN
       attempts' = attempts \o
           [k \in 1..Len(offsets) |->
               [pos |-> offsets[k] + 1, customerId |-> customerIds[offsets[k] + 1],
                start |-> bi, pc |-> "lookup", conversationId |-> "",
                result |-> NoResult]]
    /\ batchFrom' = Len(attempts) + 1
    /\ groupsLessPauses' = groupsLessPauses + 1
    /\ bpc' = "await"
    /\ UNCHANGED <<customers, customerIds, maxConcurrent, bi, results, batchResponse,
                   nextConv, calls, textVars, parseVars, hookVarsButCalls, callVars>>

\* the attempt at index a ends with the given result
Finish(a, result) == [attempts EXCEPT ![a].pc = "done", ![a].result = result]

\* line 141: getCustomerById returns the customer; initiateCall is called
LookupCustomerAt(a) ==
    /\ attempts[a].pc = "lookup"
    /\ attempts[a].customerId \in customers
    /\ attempts' = [attempts EXCEPT ![a].pc = "initiate"]
    /\ UNCHANGED <<groupsLessPauses, customers, customerIds, maxConcurrent, bi, batchFrom, results, bpc,
                   batchResponse, nextConv, calls, textVars, parseVars, hookVarsButCalls, callVars>>

\* line 141: getCustomerById throws (no such row, or the database fails)
LookupCustomerThrowsAt(a) ==
    /\ attempts[a].pc = "lookup"
    /\ attempts' = Finish(a, ErrorResult(attempts[a].customerId, "Unknown error"))
    /\ UNCHANGED <<groupsLessPauses, customers, customerIds, maxConcurrent, bi, batchFrom, results, bpc,
                   batchResponse, nextConv, calls, textVars, parseVars, hookVarsButCalls, callVars>>

\* line 147: initiateCall returns the conversation id; createCall is called
\* (the vendor placed the call; its other replies are followed under SpecCalls)
InitiateCallAt(a) ==
    /\ attempts[a].pc = "initiate"
    /\ nextConv' = nextConv + 1
    /\ LET data == PlacedReply(nextConv + 1) IN
       attempts' = [attempts EXCEPT ![a].pc = "insert",
                                    ![a].conversationId = initiateCall(data, DateNow)]
    /\ UNCHANGED <<groupsLessPauses, customers, customerIds, maxConcurrent, bi, batchFrom, results, bpc,
                   batchResponse, calls, textVars, parseVars, hookVarsButCalls, callVars>>

\* line 147: initiateCall throws
InitiateCallThrowsAt(a) ==
    /\ attempts[a].pc = "initiate"
    /\ attempts' = Finish(a, ErrorResult(attempts[a].customerId,
                                         "Failed to initiate call with ElevenLabs"))
    /\ UNCHANGED <<groupsLessPauses, customers, customerIds, maxConcurrent, bi, batchFrom, results, bpc,
                   batchResponse, nextConv, calls, textVars, parseVars, hookVarsButCalls, callVars>>

\* lines 154-168: createCall inserts the record; the callback returns the queued entry
CreateCallAt(a) ==
    /\ attempts[a].pc = "insert"
    /\ RowsBySid(attempts[a].conversationId) = {}       \* call_sid TEXT UNIQUE
    /\ LET cid == "call-" \o attempts[a].conversationId IN
       /\ calls' = calls \cup {[id |-> cid, call_sid |-> attempts[a].conversationId,
                                call_status |-> "queued",
                                customer_id |-> attempts[a].customerId]}
       /\ attempts' = Finish(a, QueuedResult(attempts[a].customerId, cid,
                                             attempts[a].conversationId))
    /\ UNCHANGED <<groupsLessPauses, customers, customerIds, maxConcurrent, bi, batchFrom, results, bpc,
                   batchResponse, nextConv, textVars, parseVars, hookVarsButCalls, callVars>>

\* line 154: createCall throws
CreateCallThrowsAt(a) ==
    /\ attempts[a].pc = "insert"
    /\ attempts' = Finish(a, ErrorResult(attempts[a].customerId, "Unknown error"))
    /\ UNCHANGED <<groupsLessPauses, customers, customerIds, maxConcurrent, bi, batchFrom, results, bpc,
                   batchResponse, nextConv, calls, textVars, parseVars, hookVarsButCalls, callVars>>

\* the await resuming as soon as one promise of the batch is settled
BatchSettled_AnySettled == \E a \in batchFrom..Len(attempts) : attempts[a].pc = "done"

\* await Promise.all(batchPromises) resumes: every promise of the batch is settled
BatchSettled == \A a \in batchFrom..Len(attempts) : attempts[a].pc = "done"

\* the pause made after every batch, the last one too
PauseDue_AfterEveryBatch == TRUE

\* if (i + maxConcurrent < customerIds.length): a pause is made after the batch
PauseDue == bi + maxConcurrent < Len(customerIds)

\* lines 177-184: the batch results are pushed; the pause is entered when
\* another batch follows, else the loop variable advances
CollectBatch ==
    /\ bpc = "await"
    /\ BatchSettled
    /\ results' = results \o [k \in 1..(Len(attempts) - batchFrom + 1) |->
                                 attempts[batchFrom + k - 1].result]
    /\ IF PauseDue
       THEN /\ bpc' = "sleep"
            /\ groupsLessPauses' = groupsLessPauses - 1
            /\ UNCHANGED bi
       ELSE /\ bpc' = "loop"
            /\ bi' = bi + maxConcurrent
            /\ UNCHANGED groupsLessPauses
    /\ UNCHANGED <<customers, customerIds, maxConcurrent, batchFrom, attempts,
                   batchResponse, nextConv, calls, textVars, parseVars, hookVarsButCalls, callVars>>

\* lines 182 and 136: the one-second timer fires; i += maxConcurrent
Wake ==
    /\ bpc = "sleep"
    /\ bi + maxConcurrent >= 0 - LoopCap
    /\ bi' = bi + maxConcurrent
    /\ bpc' = "loop"
    /\ UNCHANGED <<groupsLessPauses, customers, customerIds, maxConcurrent, batchFrom, attempts, results,
                   batchResponse, nextConv, calls, textVars, parseVars, hookVarsButCalls, callVars>>

\* results.filter(r => !r.error).length and results.filter(r => r.error).length
CountResults(withError) ==
    Cardinality({k \in DOMAIN results : (results[k].error # "") = withError})

\* lines 186-195: the loop condition fails; the summary is sent
RespondBatch ==
    /\ bpc = "loop"
    /\ ~(bi < Len(customerIds))
    /\ batchResponse' = [status |-> 200, total |-> Len(customerIds),
                         successful |-> CountResults(FALSE),
                         failed |-> CountResults(TRUE),
                         results |-> results]
    /\ bpc' = "responded"
    /\ UNCHANGED <<groupsLessPauses, customers, customerIds, maxConcurrent, bi, batchFrom, attempts, results,
                   nextConv, calls, textVars, parseVars, hookVarsButCalls, callVars>>

\* each step of a callback, taken by any of the callbacks started so far
LookupCustomer == \E a \in DOMAIN attempts : LookupCustomerAt(a)
LookupCustomerThrows == \E a \in DOMAIN attempts : LookupCustomerThrowsAt(a)
InitiateCall == \E a \in DOMAIN attempts : InitiateCallAt(a)
InitiateCallThrows == \E a \in DOMAIN attempts : InitiateCallThrowsAt(a)
CreateCall == \E a \in DOMAIN attempts : CreateCallAt(a)
CreateCallThrows == \E a \in DOMAIN attempts : CreateCallThrowsAt(a)

BatchInit ==
    /\ text = "" /\ variant = "" /\ cpc = "off" /\ out = NoOut
    /\ transcript = <<>>
    /\ callId = "none"
    /\ i = 0
    /\ currentQuestion = NoQuestion
    /\ wpc = "off"
    /\ responses = <<>>
    /\ HookIdle
    /\ BatchIdle
    /\ CallIdle

BatchNext ==
    \/ StartBatch
    \/ LaunchBatch
    \/ LookupCustomer \/ LookupCustomerThrows
    \/ InitiateCall \/ InitiateCallThrows
    \/ CreateCall \/ CreateCallThrows
    \/ CollectBatch
    \/ Wake
    \/ RespondBatch

SpecBatch == BatchInit /\ [][BatchNext]_vars

\* a step of some callback: a lookup, a call initiation or an insert returns or throws
AttemptReturns ==
    \/ LookupCustomer \/ LookupCustomerThrows
    \/ InitiateCall \/ InitiateCallThrows
    \/ CreateCall \/ CreateCallThrows

\* startBatchCalls on an event loop that runs every continuation that is ready:
\* every awaited lookup, initiation and insert returns, the timer fires, and
\* the handler is resumed
SpecBatchFair ==
    /\ BatchInit
    /\ [][BatchNext]_vars
    /\ WF_vars(LaunchBatch)
    /\ WF_vars(AttemptReturns)
    /\ WF_vars(CollectBatch)
    /\ WF_vars(Wake)
    /\ WF_vars(RespondBatch)

(***************************************************************************)
(* CallController.testCall and CallController.startCall, with the webhook  *)
(***************************************************************************)
Digits == {"0", "1", "2", "3", "4", "5", "6", "7", "8", "9"}

RECURSIVE WithoutSpaces(_, _)
\* phoneNumber.replace(/\s/g, '')
WithoutSpaces(s, pos) ==
    IF pos > Len(s) THEN ""
    ELSE (IF SubSeq(s, pos, pos) = " " THEN "" ELSE SubSeq(s, pos, pos))
         \o WithoutSpaces(s, pos + 1)

\* /^[\+]?[1-9][\d]{0,15}$/.test(s)
phoneRegexTest(s) ==
    LET body == IF Len(s) > 0 /\ SubSeq(s, 1, 1) = "+" THEN SubSeq(s, 2, Len(s)) ELSE s IN
    /\ Len(body) \in 1..16
    /\ SubSeq(body, 1, 1) \in Digits \ {"0"}
    /\ \A pos \in 2..Len(body) : SubSeq(body, pos, pos) \in Digits

\* the requests made to the two endpoints
CallRequests ==
    { [endpoint |-> "testCall", customerId |-> "", firstName |-> "Ann", phoneNumber |-> "+61 400 111"],
      [endpoint |-> "testCall", customerId |-> "", firstName |-> "Ann", phoneNumber |-> "0400"],
      [endpoint |-> "testCall", customerId |-> "", firstName |-> "", phoneNumber |-> "61400111"],
      [endpoint |-> "startCall", customerId |-> "c1", firstName |-> "Ann", phoneNumber |-> "61400111"],
      [endpoint |-> "startCall", customerId |-> "c9", firstName |-> "Bob", phoneNumber |-> "0400"],
      [endpoint |-> "startCall", customerId |-> "c1", firstName |-> "Ann", phoneNumber |-> ""] }

\* the 400 checks of testCall (lines 11-23) and of startCall (lines 68-72)
BadCallRequest(r) ==
    IF r.endpoint = "testCall"
    THEN \/ r.firstName = "" \/ r.phoneNumber = ""
         \/ ~phoneRegexTest(WithoutSpaces(r.phoneNumber, 1))
    ELSE r.customerId = "" \/ r.phoneNumber = "" \/ r.firstName = ""

\* res.status(n).json({ error: ... })
ErrorResponse(n) == [NoCallResponse EXCEPT !.status = n]

\* testCall lines 9-23, startCall lines 66-72: the request is read and validated
CallPost ==
    /\ callPc = "idle"
    /\ nextConv < MaxCalls
    /\ \E r \in CallRequests :
          /\ callRequest' = r
          /\ IF BadCallRequest(r)
             THEN /\ callResponse' = ErrorResponse(400)
                  /\ callPc' = "responded"
             ELSE /\ callResponse' = NoCallResponse
                  /\ callPc' = IF r.endpoint = "startCall" THEN "lookup" ELSE "initiate"
    /\ vendorData' = NoVendorData
    /\ conversationId' = ""
    /\ UNCHANGED <<textVars, parseVars, hookVars, batchVars>>

\* startCall line 75: getCustomerById returns the customer
GetCustomer ==
    /\ callPc = "lookup"
    /\ callRequest.customerId \in customers
    /\ callPc' = "initiate"
    /\ UNCHANGED <<callRequest, vendorData, conversationId, callResponse,
                   textVars, parseVars, hookVars, batchVars>>

\* startCall line 75: getCustomerById throws (no such row, or the database
\* fails); the catch of line 112 answers 500
GetCustomerThrows ==
    /\ callPc = "lookup"
    /\ callResponse' = ErrorResponse(500)
    /\ callPc' = "responded"
    /\ UNCHANGED <<callRequest, vendorData, conversationId,
                   textVars, parseVars, hookVars, batchVars>>

\* testCall line 27, startCall line 84: the vendor answers the outbound-call
\* request and initiateCall returns; a conversation exists at the vendor when
\* the reply names one
CallInitiated ==
    /\ callPc = "initiate"
    /\ \E data \in VendorReplies(nextConv + 1) :
          /\ vendorData' = data
          /\ conversationId' = initiateCall(data, DateNow)
          /\ conversations' = IF data.conversation_id = "" THEN conversations
                              ELSE (data.conversation_id :> PayloadTranscript) @@ conversations
    /\ nextConv' = nextConv + 1
    /\ callPc' = "insert"
    /\ UNCHANGED <<callRequest, callResponse, textVars, parseVars,
                   phase, event, callSid, httpResponse, call, calls, callTranscripts,
                   delivered, previous,
                   customers, customerIds, maxConcurrent, bi, batchFrom, attempts, results,
                   bpc, batchResponse, groupsLessPauses>>

\* initiateCall throws and the handler goes on to createCall all the same
CallInitiateThrows_GoesOn ==
    /\ callPc = "initiate"
    /\ callPc' = "insert"
    /\ UNCHANGED <<callRequest, vendorData, conversationId, callResponse,
                   textVars, parseVars, hookVars, batchVars>>

\* testCall line 27, startCall line 84: initiateCall throws; 500
CallInitiateThrows ==
    /\ callPc = "initiate"
    /\ callResponse' = ErrorResponse(500)
    /\ callPc' = "responded"
    /\ UNCHANGED <<callRequest, vendorData, conversationId,
                   textVars, parseVars, hookVars, batchVars>>

\* testCall lines 37-52, startCall lines 94-110: createCall inserts the
\* record with the returned id as call_sid, and the handler answers
CallRecorded ==
    /\ callPc = "insert"
    /\ RowsBySid(conversationId) = {}                    \* call_sid TEXT UNIQUE
    /\ LET cid == "call-" \o conversationId IN
       /\ calls' = calls \cup {[id |-> cid, call_sid |-> conversationId,
                                call_status |-> "queued",
                                customer_id |-> callRequest.customerId]}
       /\ callResponse' = [status |-> 200, callId |-> cid, callSid |-> conversationId]
    /\ callPc' = "responded"
    /\ UNCHANGED <<callRequest, vendorData, conversationId, textVars, parseVars,
                   phase, event, callSid, httpResponse, call, callTranscripts,
                   conversations, delivered, previous, batchVars>>

\* testCall line 37, startCall line 94: createCall throws; 500
CallRecordThrows ==
    /\ callPc = "insert"
    /\ callResponse' = ErrorResponse(500)
    /\ callPc' = "responded"
    /\ UNCHANGED <<callRequest, vendorData, conversationId,
                   textVars, parseVars, hookVars, batchVars>>

\* the request is over and its locals are gone; the next one is taken
CallFinished ==
    /\ callPc = "responded"
    /\ callPc' = "idle"
    /\ callRequest' = NoCallRequest
    /\ vendorData' = NoVendorData
    /\ conversationId' = ""
    /\ callResponse' = NoCallResponse
    /\ UNCHANGED <<textVars, parseVars, hookVars, batchVars>>

\* the vendor posts a webhook request about a conversation it has created
VendorPost ==
    /\ WebhookPost
    /\ callSid' \in DOMAIN conversations

\* the server with no call placed yet
CallsInit ==
    /\ text = "" /\ variant = "" /\ cpc = "off" /\ out = NoOut
    /\ transcript = <<>>
    /\ callId = "none"
    /\ i = 0
    /\ currentQuestion = NoQuestion
    /\ wpc = "idle"
    /\ responses = <<>>
    /\ phase = "main"
    /\ event = BaseEvent
    /\ callSid = ""
    /\ httpResponse = "none"
    /\ call = NoCall
    /\ calls = {}
    /\ callTranscripts = <<>>
    /\ conversations = <<>>
    /\ delivered = 0
    /\ previous = NoPrevious
    /\ BatchIdle
    /\ CallIdle

CallsNext ==
    \/ CallPost
    \/ GetCustomer \/ GetCustomerThrows
    \/ CallInitiated \/ CallInitiateThrows
    \/ CallRecorded \/ CallRecordThrows
    \/ CallFinished
    \/ VendorPost \/ ProcessEvent
    \/ FindCall \/ FindCallThrows
    \/ FetchConversation \/ FetchConversationThrows
    \/ StoreTranscript \/ StoreTranscriptThrows
    \/ ParseStep \/ ParseStepThrows \/ ParseReturn
    \/ MarkCompleted \/ MarkCompletedThrows
    \/ Fallback \/ FallbackThrows
    \/ MarkStarted \/ MarkStartedThrows
    \/ NextRequest

SpecCalls == CallsInit /\ [][CallsNext]_vars

(***************************************************************************)
(* The three endpoints that place calls: testCall, startCall and           *)
(* startBatchCalls                                                         *)
(***************************************************************************)
\* a testCall or startCall request arrives when no campaign batch is running
PlaceCallPost ==
    /\ CallPost
    /\ bpc \in {"idle", "responded"}

\* the campaign batch is requested of a server that has placed no call yet
PlaceBatchPost ==
    /\ StartBatch
    /\ callPc = "idle"
    /\ nextConv = 0

PlaceNext ==
    \/ PlaceCallPost
    \/ GetCustomer \/ GetCustomerThrows
    \/ CallInitiated \/ CallInitiateThrows
    \/ CallRecorded \/ CallRecordThrows
    \/ CallFinished
    \/ PlaceBatchPost
    \/ LaunchBatch
    \/ LookupCustomer \/ LookupCustomerThrows
    \/ InitiateCall \/ InitiateCallThrows
    \/ CreateCall \/ CreateCallThrows
    \/ CollectBatch
    \/ Wake
    \/ RespondBatch

SpecPlace == CallsInit /\ [][PlaceNext]_vars

(***************************************************************************)
(* Claims about the classifier functions (checked under SpecText)          *)
(***************************************************************************)
Q3FollowUps == {"how important", "how could we improve"}
Q4FollowUps == {"what actions show", "what actions don't"}

ContainsAny(lowerText, S) == \E p \in S : Includes(lowerText, p)

Trigger(n, l) ==
    CASE n = 1 -> Includes(l, "how long have you been using")
                  \/ Includes(l, "how long have you been")
      [] n = 2 -> /\ Includes(l, "main reason") \/ Includes(l, "reason you continue")
                  /\ Includes(l, "continue") \/ Includes(l, "work with us")
      [] n = 3 -> Includes(l, "meeting expectations") /\ ~ContainsAny(l, Q3FollowUps)
      [] n = 4 -> Includes(l, "safety expectations") /\ ~ContainsAny(l, Q4FollowUps)
      [] n = 5 -> Includes(l, "anything else")
                  \/ Includes(l, "anything about your business")

\* C3: the result of detectQuestionFromText is the lowest-numbered question
\* whose unsuppressed trigger condition holds on the lower-cased text, and
\* null when none holds.
C3_PriorityOrder ==
    cpc = "classified" =>
        LET l == ToLowerCase(text)
            holding == {n \in 1..5 : Trigger(n, l)}
        IN  IF holding = {} THEN out.detected = NoQuestion
            ELSE /\ out.detected \in holding
                 /\ \A n \in holding : out.detected <= n

\* the triggers of question 3 and of question 5 both hold, and 3 was returned
C3_Witness ==
    /\ cpc = "classified"
    /\ Trigger(3, ToLowerCase(text))
    /\ Trigger(5, ToLowerCase(text))
    /\ out.detected = 3

PositiveList == {"good", "great", "excellent", "satisfied", "happy", "pleased", "love", "amazing"}
NegativeList == {"bad", "terrible", "awful", "disappointed", "unhappy", "hate", "worst", "poor"}

RECURSIVE SumOver(_, _)
\* the occurrences in l of the words of S, repetitions counted
SumOver(S, l) ==
    IF S = {} THEN 0
    ELSE LET w == CHOOSE x \in S : TRUE
         IN  Occurrences(l, w) + SumOver(S \ {w}, l)

\* the number of words of S that l contains
WordsPresent(S, l) == Cardinality({w \in S : Includes(l, w)})

\* C5 as stated: every occurrence of a listed word counts; the label is
\* positive when the positive occurrences outnumber the negative ones and
\* negative when the negative ones outnumber the positive ones.
C5_Original ==
    cpc = "analyzed" =>
        LET l == ToLowerCase(text)
            p == SumOver(PositiveList, l)
            n == SumOver(NegativeList, l)
        IN  /\ p > n => out.sentiment = "positive"
            /\ n > p => out.sentiment = "negative"

\* C5 as amended: each listed word counts once however often it appears; the
\* label is positive when more positive-list words than negative-list words
\* are contained in the lower-cased text, negative when more negative-list
\* words are, and so a repeated word cannot break a tie.
C5_Amended ==
    cpc = "analyzed" =>
        LET l == ToLowerCase(text)
            p == WordsPresent(PositiveList, l)
            n == WordsPresent(NegativeList, l)
        IN  /\ p > n => out.sentiment = "positive"
            /\ n > p => out.sentiment = "negative"
            /\ (p = n /\ SumOver(PositiveList, l) # SumOver(NegativeList, l))
                   => out.sentiment = "neutral"

\* one positive word twice and one negative word once: each counted once, a tie
C5_Witness ==
    /\ cpc = "analyzed"
    /\ text = "good good bad"
    /\ out.sentiment = "neutral"

\* C6: analyzeSentiment returns neutral whenever as many positive-list words
\* as negative-list words are contained in the text (none at all included),
\* and returns the same label for two texts that differ only in letter case.
C6_TieNeutralAnyCase ==
    cpc = "analyzed" =>
        LET l == ToLowerCase(text) IN
        /\ WordsPresent(PositiveList, l) = WordsPresent(NegativeList, l)
               => out.sentiment = "neutral"
        /\ out.sentiment = out.sentimentV

\* a tie of one listed word each, in a text with capital letters
C6_Witness ==
    /\ cpc = "analyzed"
    /\ text = "Great bad"
    /\ variant = "GREAT BAD"
    /\ out.sentiment = "neutral"
    /\ out.sentimentV = "neutral"

SixSubstrings ==
    {"how important", "how could we improve", "what actions show",
     "what actions don't", "what actions show safe", "what actions don't meet"}

\* C7: isFollowUpQuestion is true exactly when the lower-cased utterance
\* contains one of the six follow-up substrings, whatever the letter case
\* the utterance is written in.
C7_FollowUpExactly ==
    cpc = "classified" =>
        /\ out.followUp = ContainsAny(ToLowerCase(text), SixSubstrings)
        /\ out.followUpV = out.followUp

\* a follow-up phrasing written with capitals is recognised
C7_Witness ==
    /\ cpc = "classified"
    /\ text = "How Important"
    /\ variant = "HOW IMPORTANT"
    /\ out.followUp
    /\ out.followUpV


(***************************************************************************)
(* Claims about parseTranscriptToResponses (checked under SpecParse)       *)
(***************************************************************************)
\* the loop is about to process a user entry that directly follows an agent entry
UserTurnAfterAgent ==
    /\ wpc = "parse"
    /\ i >= 1
    /\ i < Len(transcript)
    /\ EntryRole(transcript[i + 1]) = "user"
    /\ EntryRole(transcript[i]) \in AgentRoles

\* the utterance of the agent entry before the entry the loop is at
PreviousUtterance == EntryMessage(transcript[i])

\* C1 as stated: a user utterance directly after an agent utterance that
\* matches no question trigger and contains no follow-up phrase produces no
\* survey response row, whatever question was open.
C1_Original ==
    [][ ( /\ UserTurnAfterAgent
          /\ detectQuestionFromText(PreviousUtterance) = NoQuestion
          /\ ~isFollowUpQuestion(PreviousUtterance) )
        => responses' = responses ]_vars

\* C4 as stated: with question N open, a user utterance directly after an
\* agent utterance that matches no trigger but contains a follow-up phrase is
\* stored with question_number N and is_followup true, and N stays open.
C4_Original ==
    [][ ( /\ UserTurnAfterAgent
          /\ detectQuestionFromText(PreviousUtterance) = NoQuestion
          /\ isFollowUpQuestion(PreviousUtterance)
          /\ currentQuestion # NoQuestion
          /\ wpc' = "parse" )
        => /\ responses' = Append(responses,
                 ResponseRow(callId, currentQuestion,
                             EntryMessage(transcript[i + 1]), TRUE))
           /\ currentQuestion' = currentQuestion ]_vars

\* C4 for agent entries that carry their role in `role` and their words in
\* `message` or `response`, the fields the user branch reads back
C4_RoleAndMessageFields ==
    [][ ( /\ UserTurnAfterAgent
          /\ transcript[i].role # ""
          /\ Or(transcript[i].message, transcript[i].response) # ""
          /\ detectQuestionFromText(PreviousUtterance) = NoQuestion
          /\ isFollowUpQuestion(PreviousUtterance)
          /\ currentQuestion # NoQuestion
          /\ wpc' = "parse" )
        => /\ responses' = Append(responses,
                 ResponseRow(callId, currentQuestion,
                             EntryMessage(transcript[i + 1]), TRUE))
           /\ currentQuestion' = currentQuestion ]_vars


(***************************************************************************)
(* Claims about the webhook (checked under SpecHook)                       *)
(***************************************************************************)
\* the question a data collection key stands for
KeyQuestion(key) ==
    CASE key = "q1" -> 1 [] key = "q2" -> 2 [] key = "q3" -> 3
      [] key = "q4" -> 4 [] key = "q5" -> 5 [] OTHER -> NoQuestion

\* the survey_responses rows of the call the request is about
CallResponses == {responses[k] : k \in {n \in DOMAIN responses : responses[n].call_id = call.id}}

\* the rows are the entries of the request's data collection result, one for one
TakenFromMap ==
    /\ \A d \in event.data_collection :
          \E r \in CallResponses :
             r.question_number = KeyQuestion(d.key) /\ r.response_text = d.value
    /\ \A r \in CallResponses :
          \E d \in event.data_collection :
             r.question_number = KeyQuestion(d.key) /\ r.response_text = d.value

\* C8 as stated: once the first post-call webhook, carrying a data collection
\* result, has been processed to completion for a known call, the responses
\* stored for that call are the entries of that map.
C8_Original ==
    ( /\ delivered = 1
      /\ wpc = "done"
      /\ event.data_collection # {}
      /\ call # NoCall
      /\ [call EXCEPT !.call_status = "completed"] \in calls )
    => TakenFromMap


(***************************************************************************)
(* Claims about startBatchCalls (checked under SpecBatch)                  *)
(***************************************************************************)
\* the callbacks started for the customer at position p of customerIds
AttemptsOf(p) == {a \in DOMAIN attempts : attempts[a].pos = p}

\* a results entry is a queued call, or an error entry
WellFormedResult(r) ==
    \/ r.error = "" /\ r.status = "queued" /\ r.callSid # "" /\ r.callId # ""
    \/ r.error # "" /\ r.status = "" /\ r.callSid = "" /\ r.callId = ""

\* C9: the batches are the consecutive groups of maxConcurrent positions of
\* customerIds; no position is attempted twice; and when the response is sent
\* every position was attempted exactly once and results holds, in input
\* order, the one entry of each attempt (a queued call or an error entry),
\* with successful + failed = total = the number of input IDs.
C9_BatchPartition ==
    /\ \A p \in 1..Len(customerIds) : Cardinality(AttemptsOf(p)) <= 1
    /\ maxConcurrent >= 1 =>
          \A a \in DOMAIN attempts :
             /\ attempts[a].start % maxConcurrent = 0
             /\ attempts[a].pos \in (attempts[a].start + 1)..(attempts[a].start + maxConcurrent)
    /\ (bpc = "responded" /\ batchResponse.status = 200) =>
          /\ \A p \in 1..Len(customerIds) : Cardinality(AttemptsOf(p)) = 1
          /\ Len(batchResponse.results) = Len(customerIds)
          /\ \A p \in 1..Len(customerIds) :
                /\ batchResponse.results[p].customerId = customerIds[p]
                /\ WellFormedResult(batchResponse.results[p])
                /\ \A a \in AttemptsOf(p) :
                      attempts[a].pc = "done" /\ batchResponse.results[p] = attempts[a].result
          /\ batchResponse.total = Len(customerIds)
          /\ batchResponse.successful + batchResponse.failed = batchResponse.total
          /\ batchResponse.failed =
                Cardinality({p \in 1..Len(customerIds) : batchResponse.results[p].error # ""})

\* three customers in groups of two: the first fails, the second and the third
\* (the smaller last group) are queued
C9_Witness ==
    /\ bpc = "responded"
    /\ batchResponse.status = 200
    /\ maxConcurrent = 2
    /\ Len(customerIds) = 3
    /\ batchResponse.results[1].error # ""
    /\ batchResponse.results[2].error = ""
    /\ batchResponse.results[3].error = ""
    /\ batchResponse.successful = 2
    /\ batchResponse.failed = 1

\* the callbacks that have started and not yet returned
InFlight == {a \in DOMAIN attempts : attempts[a].pc # "done"}

\* C10: with maxConcurrent a positive integer, never more than maxConcurrent
\* attempts are in flight, and an attempt of a later group exists only when
\* every attempt of every earlier group has finished.
C10_BoundedInFlight ==
    maxConcurrent >= 1 =>
        /\ Cardinality(InFlight) <= maxConcurrent
        /\ \A a, b \in DOMAIN attempts :
              attempts[a].start < attempts[b].start => attempts[a].pc = "done"

\* the second group of two is in flight, both attempts at once, after a first
\* group in which one attempt failed
C10_Witness ==
    /\ maxConcurrent = 2
    /\ Len(customerIds) = 4
    /\ Cardinality({a \in InFlight : attempts[a].start = 2}) = 2
    /\ \E a \in DOMAIN attempts : attempts[a].start = 0 /\ attempts[a].result.error # ""

\* C11: a pause is made after a batch exactly when another batch follows: a
\* request of g batches makes g-1 pauses, each entered when every attempt of
\* the batch before it has returned and followed by the start of the next
\* batch, and none between the last batch and the response.
C11_PausesBetweenGroups ==
    /\ [](groupsLessPauses \in {0, 1})
    /\ []((bpc = "responded" /\ batchResponse.status = 200) => groupsLessPauses = 1)
    /\ [](bpc = "sleep" => (InFlight = {} /\ groupsLessPauses = 0))
    /\ [][ (bpc = "sleep" /\ bpc' = "loop") => bi' < Len(customerIds) ]_vars
    /\ [][ (bpc = "await" /\ bpc' = "loop") => ~(bi' < Len(customerIds)) ]_vars

\* three customers one at a time: the third batch has been collected with no
\* pause after it and the response is sent
C11_Witness ==
    /\ bpc = "responded"
    /\ batchResponse.status = 200
    /\ maxConcurrent = 1
    /\ Len(customerIds) = 3
    /\ Cardinality({attempts[a].start : a \in DOMAIN attempts}) = 3
    /\ groupsLessPauses = 1

\* C14 as stated: once the request is validated (customerIds non-empty, any
\* maxConcurrent), the loop ends and the response is sent, every awaited call
\* returning.  The loop variable is followed down to -LoopCap only; a run that
\* leaves that range is not counted against the claim.
C14_Original ==
    (bpc = "loop") ~> (bpc = "responded" \/ bi + maxConcurrent < 0 - LoopCap)

\* C14 for maxConcurrent >= 1: the response is sent
C14_PositiveTerminates ==
    (bpc = "loop" /\ maxConcurrent >= 1) ~> (bpc = "responded")

(***************************************************************************)
(* Claims about the call endpoints and the webhook (checked under          *)
(* SpecCalls)                                                              *)
(***************************************************************************)
\* the conversation id the request being processed by the webhook is about
EventConversation == IF event.type \in EndTypes THEN ConversationId ELSE callSid

\* the rows a table (a sequence of rows) gained in the step
AddedRows(before, after) == {after[k] : k \in DOMAIN after \ DOMAIN before}

\* the step only added rows to the table
OnlyAppended(before, after) ==
    /\ Len(after) >= Len(before)
    /\ \A k \in DOMAIN before : after[k] = before[k]

\* a step of the webhook's processing touches the record whose call_sid is
\* the request's conversation id, and the rows of that record, and nothing else
WebhookFrame ==
    (callPc' = callPc) =>
        /\ \A c \in calls : c.call_sid # EventConversation => c \in calls'
        /\ \A c \in calls' : c.call_sid # EventConversation => c \in calls
        /\ {c.call_sid : c \in calls'} = {c.call_sid : c \in calls}
        /\ (call' # call /\ call' # NoCall) => call'.call_sid = EventConversation
        /\ OnlyAppended(responses, responses')
        /\ OnlyAppended(callTranscripts, callTranscripts')
        /\ \A r \in AddedRows(responses, responses') \cup
                    AddedRows(callTranscripts, callTranscripts') :
              \E c \in calls : c.call_sid = EventConversation /\ r.call_id = c.id

\* C12 as stated: every call record has as call_sid a conversation id the
\* vendor returned for that call, and a step of the processing of a webhook
\* request for conversation X reads and changes only the record whose call_sid
\* is X and adds only rows of that record.
C12_Original ==
    /\ [](\A c \in calls : c.call_sid \in DOMAIN conversations)
    /\ []((callPc = "responded" /\ callResponse.status = 200) =>
             /\ vendorData.conversation_id # ""
             /\ callResponse.callSid = vendorData.conversation_id)
    /\ [][WebhookFrame]_vars

\* the second half of C12 alone: the webhook's processing stays within the
\* record of the request's conversation id
C12_WebhookFrame == [][WebhookFrame]_vars

(***************************************************************************)
(* Claims about the processing of one webhook request (checked under       *)
(* SpecHook)                                                               *)
(***************************************************************************)
\* the list of turns received for the request being processed: the vendor
\* API's when the main path stores it, else the request's own
ReceivedTurns ==
    IF wpc = "storeTranscript" THEN conversations[ConversationId]
    ELSE IF event.transcript.present THEN event.transcript.turns
    ELSE event.data_transcript.turns

\* C13: whenever the processing of a conversation-end request stores a
\* transcript row, the row belongs to the call found for the request and
\* holds the received list of turns as it was received (same turns, same
\* order), whatever the parser goes on to attribute; rows already stored are
\* never altered.
C13_TranscriptVerbatim ==
    [][ /\ OnlyAppended(callTranscripts, callTranscripts')
        /\ callTranscripts' # callTranscripts =>
              /\ event.type \in EndTypes
              /\ call \in RowsBySid(ConversationId)
              /\ callTranscripts' = Append(callTranscripts,
                                           [call_id |-> call.id, transcript |-> ReceivedTurns])
      ]_vars

\* the follow-up question and the answer to it were stored as received,
\* and the parser attributed neither to a question
C13_Witness ==
    /\ wpc = "done"
    /\ delivered = 1
    /\ callTranscripts = <<[call_id |-> "call-1",
                            transcript |-> <<HookAgentFollowUp, HookUser>>]>>
    /\ responses = <<>>

\* the steps of the setImmediate callback: database reads and writes, vendor
\* API calls, and the parsing between them
Processing ==
    wpc \in {"scheduled", "findCall", "fetch", "storeTranscript", "parse",
             "updateStatus", "fallback", "markStarted"}

\* C15: the success response of a request is sent before any database read
\* or write and any vendor API call made for it, and nothing that happens
\* in the processing, a failure included, changes or replaces it.
C15_AckBeforeProcessing ==
    /\ []((Processing \/ wpc = "done") => httpResponse = "success")
    /\ [][ Processing => httpResponse' = httpResponse ]_vars
    /\ [][ (call' # call \/ calls' # calls \/ responses' # responses
            \/ callTranscripts' # callTranscripts \/ transcript' # transcript)
           => (Processing \/ wpc = "idle") /\ httpResponse' = "success" ]_vars

\* the main path of the processing of a conversation-end request for a
\* recorded call failed and the fallback ran; the response sent stands
C15_Witness ==
    /\ wpc = "done"
    /\ event.type \in EndTypes
    /\ call # NoCall
    /\ phase = "fallback"
    /\ call \in calls
    /\ httpResponse = "success"

RECURSIVE DerivedRows(_, _, _, _)
\* the response rows that the entries of tr after the first idx derive for
\* call cid when question q is open
DerivedRows(tr, cid, idx, q) ==
    IF idx >= Len(tr) THEN <<>>
    ELSE LET role == EntryRole(tr[idx + 1])
             message == EntryMessage(tr[idx + 1])
             detected == detectQuestionFromText(message)
             followUp == PreviousIsFollowUp(tr, idx)
         IN  IF role \in AgentRoles
             THEN DerivedRows(tr, cid, idx + 1, IF detected # NoQuestion THEN detected ELSE q)
             ELSE IF role = "user" /\ q # NoQuestion
             THEN <<ResponseRow(cid, q, message, followUp)>>
                  \o DerivedRows(tr, cid, idx + 1, IF followUp THEN q ELSE NoQuestion)
             ELSE DerivedRows(tr, cid, idx + 1, q)

\* the last n rows of a table
LastRows(table, n) == SubSeq(table, Len(table) - n + 1, Len(table))

\* the transcript of the vendor and every response it derives are stored for the call
AllStored(turns) ==
    LET derived == DerivedRows(turns, call.id, 0, NoQuestion) IN
    /\ Len(callTranscripts) >= 1
    /\ callTranscripts[Len(callTranscripts)] = [call_id |-> call.id, transcript |-> turns]
    /\ Len(responses) >= Len(derived)
    /\ LastRows(responses, Len(derived)) = derived

\* C16: on the main path the steps come in the order store transcript, store
\* every derived response, set status completed: the step that sets the
\* status is taken only when the vendor's transcript and all the responses
\* it derives are stored, and they are stored in the state it leads to.
C16_CompletedLast ==
    [][ (wpc = "updateStatus" /\ wpc' = "done") =>
           /\ AllStored(conversations[ConversationId])
           /\ callTranscripts' = callTranscripts
           /\ responses' = responses
           /\ \E c \in calls' : c.call_sid = ConversationId /\ c.call_status = "completed"
      ]_vars

\* the call is completed with its two-turn transcript and the one response
\* derived from it stored
C16_Witness ==
    /\ wpc = "done"
    /\ delivered = 1
    /\ [id |-> "call-1", call_sid |-> "conv-1", call_status |-> "completed",
        customer_id |-> "c1"] \in calls
    /\ callTranscripts = <<[call_id |-> "call-1", transcript |-> <<HookAgentQ1, HookUser>>]>>
    /\ Len(responses) = 1
    /\ responses[1].question_number = 1

\* C17 as stated: once a call record's call_status is completed, no step of
\* the processing of any later webhook request changes it.
C17_Original ==
    [][ \A c \in calls : c.call_status = "completed" => c \in calls' ]_vars

\* C20 as stated: the processing of one conversation-end request stores at
\* most one transcript row; the fallback is entered only from a failed fetch
\* of the conversation; and it is never entered with a transcript row or
\* response rows of this processing already stored.
C20_Original ==
    /\ [](delivered = 1 => Len(callTranscripts) <= 1)
    /\ [](delivered = 1 /\ wpc = "fallback" => callTranscripts = <<>> /\ responses = <<>>)
    /\ [][ (wpc # "fallback" /\ wpc' = "fallback") => wpc = "fetch" ]_vars

\* the request being processed repeats the one before it, a conversation-end
\* request for a recorded call that the first processing left completed
Redelivered ==
    /\ delivered >= 2
    /\ event = previous.event
    /\ event.type \in EndTypes
    /\ \E c \in previous.calls :
          c.call_sid = ConversationId /\ c.call_status = "completed"

\* C19 as stated: when the same conversation-end request has been processed
\* a second time, the stored transcripts and survey responses are those that
\* the first processing left (no row was added).
C19_Original ==
    (wpc = "done" /\ Redelivered) =>
        /\ responses = previous.responses
        /\ callTranscripts = previous.callTranscripts

\* the status update of the conversation_started branch ran against a
\* record that exists and left it as it was: the database failed
UpdateFailed ==
    /\ RowsBySid(callSid) # {}
    /\ calls' = calls
    /\ \A c \in RowsBySid(callSid) : c.call_status # "in-progress"

\* C18 as stated: the processing of a conversation_started request for the
\* conversation of a call that startCall initiated (posted by the vendor once
\* it created the conversation, in any interleaving with startCall's steps)
\* leaves the call's record with status in-progress, the database not failing.
C18_Original ==
    [][ ( /\ wpc = "markStarted"
          /\ wpc' = "done"
          /\ event.type = "conversation_started"
          /\ callRequest.endpoint = "startCall"
          /\ vendorData.conversation_id # ""
          /\ callSid = vendorData.conversation_id
          /\ ~UpdateFailed )
        => \E c \in calls' : c.call_sid = callSid /\ c.call_status = "in-progress" ]_vars

(***************************************************************************)
(* Claims about the placing of calls (checked under SpecPlace)             *)
(***************************************************************************)
\* the step inserts one call record: call_sid sid, status queued
InsertsQueued(sid) ==
    \E row \in calls' :
        /\ row \notin calls
        /\ calls' = calls \cup {row}
        /\ row.call_sid = sid
        /\ row.call_status = "queued"

\* a step of testCall or startCall: no record before initiateCall returned an
\* id, none and a 500 when it threw, and a queued record under the returned id
InsertAfterInitiationInHandler ==
    (callPc' # callPc) =>
        /\ calls' # calls =>
              /\ callPc = "insert"
              /\ conversationId # ""
              /\ InsertsQueued(conversationId)
              /\ callResponse'.status = 200
        /\ (callPc = "initiate" /\ callPc' = "responded") =>
              /\ calls' = calls
              /\ conversationId' = ""
              /\ callResponse'.status = 500

\* the same of a step of the callback of a batch attempt
InsertAfterInitiationInBatch ==
    \A a \in DOMAIN attempts :
        (attempts'[a] # attempts[a]) =>
            /\ calls' # calls =>
                  /\ attempts[a].pc = "insert"
                  /\ attempts[a].conversationId # ""
                  /\ InsertsQueued(attempts[a].conversationId)
                  /\ attempts'[a].result.status = "queued"
            /\ (attempts[a].pc = "initiate" /\ attempts'[a].pc = "done") =>
                  /\ calls' = calls
                  /\ attempts'[a].conversationId = ""
                  /\ attempts'[a].result.error # ""

\* C21: in testCall, startCall and every attempt of startBatchCalls a call
\* record is inserted only by the step that follows the return of
\* initiateCall with an id, under that id and with status queued; when
\* initiateCall throws, the attempt inserts no record and ends with an error
\* (HTTP 500, or an error entry of the batch); no record is inserted by
\* anything else.
C21_RecordAfterInitiation ==
    /\ [][InsertAfterInitiationInHandler]_vars
    /\ [][InsertAfterInitiationInBatch]_vars
    /\ [][ calls' # calls => (callPc' # callPc \/ attempts' # attempts) ]_vars
    /\ [](callPc = "insert" => conversationId # "")
    /\ [](callPc \in {"idle", "lookup", "initiate"} => conversationId = "")
    /\ []((callPc = "responded" /\ conversationId = "") => callResponse.status \in {400, 500})
    /\ [](\A a \in DOMAIN attempts :
             /\ attempts[a].pc = "insert" => attempts[a].conversationId # ""
             /\ attempts[a].pc \in {"lookup", "initiate"} => attempts[a].conversationId = ""
             /\ (attempts[a].pc = "done" /\ attempts[a].conversationId = "")
                   => attempts[a].result.error # "" /\ attempts[a].result.callId = "")
    /\ [](\A c \in calls : c.call_status = "queued")

\* the batch ended with one attempt whose initiation failed (an error entry,
\* no record) and one whose call was placed and recorded as queued, and a
\* testCall request was then answered 500 because initiateCall threw
C21_Witness ==
    /\ bpc = "responded"
    /\ batchResponse.status = 200
    /\ \E k \in DOMAIN results :
          results[k].error = "Failed to initiate call with ElevenLabs"
    /\ \E k \in DOMAIN results :
          /\ results[k].status = "queued"
          /\ \E c \in calls : c.id = results[k].callId /\ c.call_sid = results[k].callSid
    /\ Cardinality(calls) = 1
    /\ callPc = "responded"
    /\ callRequest.endpoint = "testCall"
    /\ ~BadCallRequest(callRequest)
    /\ conversationId = ""
    /\ callResponse.status = 500

\* C22 as stated: once a testCall or startCall request has finished, every
\* conversation the vendor created for a call the handlers initiated has a
\* call record whose call_sid is its conversation id (so a later
\* conversation-end request finds it), also when the insertion failed.
C22_Original ==
    callPc \in {"responded", "idle"} =>
        \A id \in DOMAIN conversations : RowsBySid(id) # {}

(***************************************************************************)
(* Claim about follow-up answers (checked under SpecParse)                 *)
(***************************************************************************)
\* the transcript is: the agent asks a recognised question, the user
\* answers, the agent asks with a follow-up phrase, the user answers
FollowUpExchange(tr) ==
    /\ Len(tr) = 4
    /\ EntryRole(tr[1]) \in AgentRoles
    /\ detectQuestionFromText(EntryMessage(tr[1])) # NoQuestion
    /\ EntryRole(tr[2]) = "user"
    /\ EntryRole(tr[3]) \in AgentRoles
    /\ isFollowUpQuestion(EntryMessage(tr[3]))
    /\ EntryRole(tr[4]) = "user"

\* C23 as stated: when such a transcript has been parsed, the second user
\* answer is stored as a response with the question number of the question
\* the agent asked first and is_followup true.
C23_Original ==
    (wpc = "parsed" /\ FollowUpExchange(transcript)) =>
        \E k \in DOMAIN responses :
            responses[k] = ResponseRow(callId,
                                       detectQuestionFromText(EntryMessage(transcript[1])),
                                       EntryMessage(transcript[4]), TRUE)

====
